---- MODULE Spec2Model ----
(***************************************************************************)
(* A model of the caching client of a remote JSON tree (src/Collections.ts):*)
(* the controller RealTimeDB, its cache of top-level paths, the Collection *)
(* nodes it materializes, and the asynchronous calls made on them.  Every  *)
(* `await` of the source is a point where another call may run, so a call  *)
(* is a record with a position (pc) and each action is the code that runs  *)
(* between two awaits.                                                     *)
(***************************************************************************)
EXTENDS Integers, Sequences, FiniteSets, TLC

(***************************************************************************)
(* Bounds of the model.                                                    *)
(***************************************************************************)
MaxCalls == 2
MaxTime == 2
MaxWrites == 1

\* The logical tasks that call the library; each makes one call at a time
\* and may make another once the last one has returned.
Callers == {"a", "b"}

\* The controller's ttl (constructor parameter), in clock ticks.
ttl == 1

(***************************************************************************)
(* JSON values, and JavaScript's undefined.  A scalar is named by its JSON *)
(* text.  An object is a function from its keys to values.                 *)
(***************************************************************************)
Undefined == [tag |-> "undefined", s |-> "", kids |-> <<>>]
Scalar(x) == [tag |-> "scalar", s |-> x, kids |-> <<>>]
Obj(f) == [tag |-> "object", s |-> "", kids |-> f]
Null == Scalar("null")

\* typeof body === "object" && body !== null
IsObject(v) == v.tag = "object"

\* The JSON scalars JavaScript treats as false in `if (cacheData)`.
FalsyScalars == {"0", "false", "\"\"", "null"}

\* if (cacheData): undefined, null, 0, false and "" are falsy; objects are truthy.
Truthy(v) ==
    /\ v.tag # "undefined"
    /\ ~(v.tag = "scalar" /\ v.s \in FalsyScalars)

\* JSON.stringify(this.cache): undefined has no JSON text, and sendRequest
\* attaches a body only `if (body)`.
JSONstringify(v) == [present |-> v.tag # "undefined", text |-> v]
\* JSON.parse(response.body)
JSONparse(b) == b.text

(***************************************************************************)
(* Paths are sequences of segments: the string "users/steve" is            *)
(* <<"users", "steve">>.                                                   *)
(***************************************************************************)
Paths == {<<"users">>, <<"steve">>}
KeyOrder == <<"alex", "name", "steve", "users">>

\* Object.keys(object), in a fixed order.
ObjectKeys(v) == SelectSeq(KeyOrder, LAMBDA k : k \in DOMAIN v.kids)

(***************************************************************************)
(* The remote store: one JSON tree.  A GET of a path that does not exist   *)
(* answers null.                                                           *)
(***************************************************************************)
RECURSIVE RemoteAt(_, _)
RemoteAt(v, path) ==
    IF path = <<>> THEN v
    ELSE IF IsObject(v) /\ Head(path) \in DOMAIN v.kids
         THEN RemoteAt(v.kids[Head(path)], Tail(path))
         ELSE Null

RECURSIVE RemotePut(_, _, _)
RemotePut(v, path, new) ==
    IF path = <<>> THEN new
    ELSE LET k == Head(path)
             old == IF IsObject(v) THEN v.kids ELSE <<>>
             sub == IF k \in DOMAIN old THEN old[k] ELSE Null
         IN Obj([x \in (DOMAIN old) \cup {k} |->
                    IF x = k THEN RemotePut(sub, Tail(path), new) ELSE old[x]])

SteveName == Obj([k \in {"name"} |-> Scalar("\"Steve\"")])
ChildValues == {Scalar("0"), Scalar("1"), SteveName}
UsersValues == {Obj([k \in {"steve"} |-> c]) : c \in ChildValues}
RemoteInits ==
    {Obj([k \in {"users", "steve"} |->
             IF k = "users" THEN u ELSE Scalar("2")]) : u \in UsersValues}

\* What another writer may store, and where.
WritePaths == {<<"steve">>}
WriteValues == {Scalar("3")}

\* What a caller may pass to Collection.set.
SetValues == {Scalar("5")}

\* Status codes of the transport.
ValidationStatuses == {200, 401, 404, 500}
RequestStatuses == {200, 404}

VARIABLES
    now,                \* Date.now()
    remote,             \* the remote JSON tree
    otherWrites,        \* number of writes by other clients so far
    initialize,         \* RealTimeDB.initialize(): "awaiting", "done", "threw"
    initStatus,         \* the status the validation request returned (0: none yet)
    initError,          \* the error initialize() threw ("" if none)
    validations,        \* number of validation requests sent
    readyPromise,       \* RealTimeDB.readyPromise: "pending" or "resolved"
    cachedCollections,  \* RealTimeDB.cachedCollections
    maps,               \* the CollectionMap objects created so far
    nodes,              \* the Collection objects created so far
    calls,              \* each caller's call in progress
    last,               \* the call that returned last
    made,               \* number of calls made so far
    _ready,             \* Firebase.ts RealTimeDB._ready
    validate,           \* Firebase.ts validate(): "awaiting", "done", "threw"
    validateStatus,     \* the status validate()'s request returned (0: none yet)
    emitted             \* number of calls of this.emit(new ReadyEventSignal)

vars == <<now, remote, otherWrites, initialize, initStatus, initError,
          validations, readyPromise, cachedCollections, maps, nodes, calls,
          last, made, _ready, validate, validateStatus, emitted>>

\* The state of the event-based client of Firebase.ts, and that of the
\* caching client of Collections.ts.
fbVars == <<_ready, validate, validateStatus, emitted>>
collectionVars == <<now, initialize, initStatus, initError, validations,
                    readyPromise, cachedCollections, maps, nodes>>

\* expiresAt of a Collection whose constructor did not assign it.
ExpUndefined == -1

\* Date.now() > this.expiresAt; a comparison with undefined is false.
Greater(a, b) == b # ExpUndefined /\ a > b

AbsentEntry == [tag |-> "absent", val |-> Undefined, map |-> 0]

(***************************************************************************)
(* RealTimeDB.initialize: the response of the validation request.          *)
(***************************************************************************)
ValidationError(status) ==
    CASE status = 404 -> "Failed To Find Database"
      [] status = 401 -> "Permission Denied To The Database"
      [] OTHER -> "Error Validating Database Info"

InitializeResponse(status) ==
    /\ initialize = "awaiting"
    /\ initStatus' = status
    /\ IF status # 200
       THEN /\ initialize' = "threw"
            /\ initError' = ValidationError(status)
            /\ UNCHANGED readyPromise
       ELSE /\ initialize' = "done"
            /\ readyPromise' = "resolved"
            /\ UNCHANGED initError
    /\ UNCHANGED <<now, remote, otherWrites, validations, cachedCollections,
                   maps, nodes, calls, last, made>>
    /\ UNCHANGED fbVars

(***************************************************************************)
(* The environment: time passes, another client writes.                    *)
(***************************************************************************)
Tick ==
    /\ now < MaxTime
    /\ now' = now + 1
    /\ UNCHANGED <<remote, otherWrites, initialize, initStatus, initError,
                   validations, readyPromise, cachedCollections, maps, nodes,
                   calls, last, made>>
    /\ UNCHANGED fbVars

\* The remote tree becomes tree: the requests in flight may be answered
\* with the new values.
ObserveCalls(cs, tree) ==
    [c \in Callers |->
        IF cs[c].pc = "request" /\ cs[c].method = "Get"
        THEN [cs[c] EXCEPT !.seen =
                 @ \cup {JSONstringify(RemoteAt(tree, cs[c].reqPath))}]
        ELSE cs[c]]

ObserveNodes(ns, tree) ==
    [i \in 1..Len(ns) |->
        IF ns[i].ready = "pending"
        THEN [ns[i] EXCEPT !.seen =
                 @ \cup {JSONstringify(RemoteAt(tree, ns[i].path))}]
        ELSE ns[i]]

OtherWrite(path, v) ==
    /\ otherWrites < MaxWrites
    /\ otherWrites' = otherWrites + 1
    /\ remote' = RemotePut(remote, path, v)
    /\ calls' = ObserveCalls(calls, remote')
    /\ nodes' = ObserveNodes(nodes, remote')
    /\ UNCHANGED <<now, initialize, initStatus, initError, validations,
                   readyPromise, cachedCollections, maps, last, made>>
    /\ UNCHANGED fbVars

\* A get whose refresh no other refresh of an expired node ran alongside.
NoPeer == [done |-> FALSE, status |-> 0, seen |-> {}]

\* A get that follows no forced get of its node.
NoPrev == [follows |-> FALSE, result |-> Undefined, status |-> 0, seen |-> {}]

(***************************************************************************)
(* Calls.  A call record holds the call's arguments, its position, the     *)
(* request it sent and what it returned, plus what it saw at the points    *)
(* the properties speak about.                                             *)
(***************************************************************************)
NewCall(op, path, node) ==
    [op |-> op,                 \* "dbGet", "get" or "set"
     path |-> path,             \* the argument of RealTimeDB.get
     node |-> node,             \* the Collection called (0 for "dbGet")
     updateCache |-> FALSE,     \* the argument of Collection.get
     data |-> Undefined,        \* the argument of Collection.set
     pc |-> "request",          \* "idle": no call made yet;
                                \* "ready": at await this.ready;
                                \* "request": at await sendRequest; "done"
     sent |-> 0,                \* number of requests this call sent
     method |-> "",             \* of the request sent
     reqPath |-> <<>>,
     body |-> JSONstringify(Undefined),
     status |-> 0,              \* of the response received
     resKind |-> "pending",     \* "undefined", "value", "map" or "threw"
     result |-> Undefined,      \* the value returned
     resMap |-> 0,              \* the CollectionMap returned
     afterFailure |-> initialize = "threw",  \* made after initialize() threw
     hit |-> FALSE,             \* RealTimeDB.get found the path cached
     cacheBefore |-> Undefined, \* set: the node's cache when the call was made
     cacheAfter |-> Undefined,  \* set: the node's cache when the call returned
     remoteAfter |-> Undefined, \* the remote value at the path, likewise
     stale |-> "unchecked",     \* get: the node's age when line 50 ran
     seen |-> {},               \* the bodies the server may answer a GET with
     prev |-> NoPrev,           \* get: the forced get this one follows
     peer |-> NoPeer,           \* get: the concurrent refresh that returned
     readyAtCall |-> FALSE,     \* Firebase.ts: this.ready when the call was made
     error |-> ""]              \* Firebase.ts: the error the call threw

Idle == [NewCall("", <<>>, 0) EXCEPT !.pc = "idle", !.afterFailure = FALSE]

\* A caller makes its next call once its last one has returned.
CanCall(c) == calls[c].pc = "idle" /\ made < MaxCalls

\* The call of caller c returns: its record, as returned.
Return(c, call) ==
    /\ calls' = [calls EXCEPT ![c] = Idle]
    /\ last' = [call EXCEPT !.pc = "done"]

\* The body of a response to a GET of path that the server reads now.
ResponseBody(path) == JSONstringify(RemoteAt(remote, path))

\* sendRequest(path, method, options, body).  The server answers a GET with
\* the value the path has at some moment between the request and the
\* response: `seen` collects these values while the request is in flight.
SendRequest(c, path, method, body) ==
    [c EXCEPT !.pc = "request", !.sent = @ + 1, !.method = method,
              !.reqPath = path, !.body = body,
              !.seen = IF method = "Get" THEN {ResponseBody(path)} ELSE {}]

(***************************************************************************)
(* Collection                                                              *)
(***************************************************************************)
\* constructor(path, db, cacheData): with data the node is ready at once;
\* without, updateCache() is started and `ready` is its promise.
NewCollection(path, cacheData, parent) ==
    IF Truthy(cacheData)
    THEN [path |-> path, cache |-> cacheData, expiresAt |-> now + ttl,
          ready |-> "resolved", seed |-> cacheData, parent |-> parent,
          initGets |-> 0, seen |-> {}, written |-> FALSE,
          loaded |-> cacheData]
    ELSE [path |-> path, cache |-> Undefined, expiresAt |-> ExpUndefined,
          ready |-> "pending", seed |-> cacheData, parent |-> parent,
          initGets |-> 1, seen |-> {ResponseBody(path)}, written |-> FALSE,
          loaded |-> Undefined]

\* (mutant: the body of every response is installed)
UpdateCacheMutantAnyStatus(n, status, body) ==
    [n EXCEPT !.cache = JSONparse(body), !.expiresAt = now + ttl,
              !.loaded = JSONparse(body)]

\* (mutant: every response renews expiresAt)
UpdateCacheMutantAlwaysRenew(n, status, body) ==
    IF status # 200 THEN [n EXCEPT !.expiresAt = now + ttl]
    ELSE [n EXCEPT !.cache = JSONparse(body), !.expiresAt = now + ttl,
                   !.loaded = JSONparse(body)]

\* (mutant: a 200 response renews expiresAt and keeps the cache)
UpdateCacheMutantKeepCache(n, status, body) ==
    IF status # 200 THEN n ELSE [n EXCEPT !.expiresAt = now + ttl]

\* updateCache(), from the response on: the node afterwards.  `loaded` is
\* the JSON value the node was last seeded with or refreshed from.
UpdateCache(n, status, body) ==
    IF status # 200 THEN n
    ELSE [n EXCEPT !.cache = JSONparse(body), !.expiresAt = now + ttl,
                   !.loaded = JSONparse(body)]

\* The initial updateCache() of a node constructed without data returns.
CollectionReady(i, status, body) ==
    /\ i \in 1..Len(nodes)
    /\ nodes[i].ready = "pending"
    /\ body \in nodes[i].seen
    /\ nodes' = [nodes EXCEPT ![i] =
                    [UpdateCache(nodes[i], status, body)
                        EXCEPT !.ready = "resolved", !.seen = {}]]
    /\ UNCHANGED <<now, remote, otherWrites, initialize, initStatus, initError,
                   validations, readyPromise, cachedCollections, maps, calls, last, made>>
    /\ UNCHANGED fbVars

\* What a get(true) remembers of the call made before it, when that call
\* was a get(true) of the same node that has returned and no other call is
\* in progress.
Follows(i, updateCache) ==
    IF /\ updateCache
       /\ last.op = "get" /\ last.node = i /\ last.updateCache
       /\ \A c \in Callers : calls[c].pc = "idle"
    THEN [follows |-> TRUE, result |-> last.result, status |-> last.status,
          seen |-> last.seen]
    ELSE NoPrev

\* get(updateCache), up to `await this.ready`.
CollectionGetCall(c, i, updateCache) ==
    /\ CanCall(c)
    /\ i \in 1..Len(nodes)
    /\ calls' = [calls EXCEPT ![c] =
                   [NewCall("get", nodes[i].path, i) EXCEPT
                       !.pc = "ready", !.updateCache = updateCache,
                       !.prev = Follows(i, updateCache)]]
    /\ UNCHANGED last
    /\ UNCHANGED <<now, remote, otherWrites, initialize, initStatus, initError,
                   validations, readyPromise, cachedCollections, maps, nodes>>
    /\ made' = made + 1
    /\ UNCHANGED fbVars

\* The age of a node's cache, as the properties speak of it.
Age(n) ==
    IF n.expiresAt = ExpUndefined THEN "unset"
    ELSE IF now - n.expiresAt >= 1 THEN "expired" ELSE "fresh"

\* if (Date.now() > this.expiresAt || updateCache)
\* (mutant: the age of the cache is not looked at)
NeedsUpdateMutantNever(n, updateCache) == updateCache
NeedsUpdate(n, updateCache) == Greater(now, n.expiresAt) \/ updateCache

\* await this.ready: the call goes on once the promise the constructor
\* stored is resolved (mutant: a stale node blocks again).
ReadySatisfiedMutantFresh(n) ==
    n.ready = "resolved" /\ ~Greater(now, n.expiresAt)

ReadySatisfied(n) == n.ready = "resolved"

\* get(updateCache), from `await this.ready` to `await this.updateCache()`
\* or to the return.
CollectionGetCheck(c) ==
    /\ c \in Callers
    /\ calls[c].op = "get"
    /\ calls[c].pc = "ready"
    /\ ReadySatisfied(nodes[calls[c].node])
    /\ LET n == nodes[calls[c].node]
           seen == [calls[c] EXCEPT !.stale = Age(n)]
       IN IF NeedsUpdate(n, calls[c].updateCache)
          THEN /\ calls' = [calls EXCEPT ![c] =
                      SendRequest(seen, n.path, "Get", JSONstringify(Undefined))]
               /\ UNCHANGED last
          ELSE Return(c, [seen EXCEPT !.resKind = "value", !.result = n.cache])
    /\ UNCHANGED <<now, remote, otherWrites, initialize, initStatus, initError,
                   validations, readyPromise, cachedCollections, maps, nodes>>
    /\ UNCHANGED made
    /\ UNCHANGED fbVars

\* return this.cache: the cache as it is after `await this.updateCache()`
\* (mutant: the cache as it was before).
GetResultMutantBefore(before, after) == before.cache

GetResult(before, after) == after.cache

\* The refresh of call r, which found its node expired, is answered with
\* status: the gets that found the same node expired and whose refresh is
\* still in flight remember it.
MarkPeers(cs, r, status) ==
    [c \in Callers |->
        IF /\ r.stale = "expired"
           /\ cs[c].op = "get" /\ cs[c].pc = "request"
           /\ cs[c].node = r.node /\ cs[c].stale = "expired"
        THEN [cs[c] EXCEPT !.peer =
                 [done |-> TRUE, status |-> status, seen |-> r.seen]]
        ELSE cs[c]]

\* get(updateCache), from the response of updateCache()'s request to the return.
CollectionGetResponse(c, status, body) ==
    /\ c \in Callers
    /\ calls[c].op = "get"
    /\ calls[c].pc = "request"
    /\ body \in calls[c].seen
    /\ LET i == calls[c].node
           n == UpdateCache(nodes[i], status, body)
       IN /\ nodes' = [nodes EXCEPT ![i] = n]
          /\ calls' = MarkPeers([calls EXCEPT ![c] = Idle], calls[c], status)
          /\ last' = [calls[c] EXCEPT !.pc = "done", !.status = status,
                          !.resKind = "value",
                          !.result = GetResult(nodes[i], n),
                          !.remoteAfter = RemoteAt(remote, calls[c].reqPath)]
    /\ UNCHANGED <<now, remote, otherWrites, initialize, initStatus, initError,
                   validations, readyPromise, cachedCollections, maps, made>>
    /\ UNCHANGED fbVars

\* updateDatabase(): the body of the PUT is the node's cache as it is now.
UpdateDatabaseBody(n, data) == JSONstringify(n.cache)

\* set(data), before `await this.updateDatabase()` returns: the node is as
\* it was, `this.cache = data` is the statement after the await.
SetStartMutantEager(n, data) == [n EXCEPT !.cache = data]

SetStart(n, data) == n

\* set(data), up to `await this.updateDatabase()`.
CollectionSetCall(c, i, data) ==
    /\ CanCall(c)
    /\ i \in 1..Len(nodes)
    /\ calls' = [calls EXCEPT ![c] =
                   SendRequest([NewCall("set", nodes[i].path, i) EXCEPT
                                   !.data = data,
                                   !.cacheBefore = nodes[i].cache],
                               nodes[i].path, "Put",
                               UpdateDatabaseBody(nodes[i], data))]
    /\ nodes' = [nodes EXCEPT ![i] = SetStart(nodes[i], data)]
    /\ UNCHANGED last
    /\ UNCHANGED <<now, remote, otherWrites, initialize, initStatus, initError,
                   validations, readyPromise, cachedCollections, maps>>
    /\ made' = made + 1
    /\ UNCHANGED fbVars

\* The remote store after a PUT answered with status: it stores the body of
\* a PUT it answers with 200.
RemoteAfterPut(path, body, status) ==
    IF status = 200 /\ body.present
    THEN RemotePut(remote, path, JSONparse(body))
    ELSE remote

\* set(data), after updateDatabase(): the response is not looked at.
SetCache(n, data, status) == [n EXCEPT !.cache = data]

\* set(data), from the response of the PUT to the return.
CollectionSetResponse(c, status) ==
    /\ c \in Callers
    /\ calls[c].op = "set"
    /\ calls[c].pc = "request"
    /\ LET i == calls[c].node
           n == SetCache(nodes[i], calls[c].data, status)
       IN /\ remote' = RemoteAfterPut(calls[c].reqPath, calls[c].body, status)
          \* `written`: a set of this node has had the response of its PUT
          /\ nodes' = ObserveNodes(
                 [nodes EXCEPT ![i] = [n EXCEPT !.written = TRUE]], remote')
          /\ calls' = ObserveCalls([calls EXCEPT ![c] = Idle], remote')
          /\ last' = [calls[c] EXCEPT !.pc = "done", !.status = status,
                          !.resKind = "undefined", !.cacheAfter = n.cache,
                          !.remoteAfter = RemoteAt(remote', calls[c].reqPath)]
    /\ UNCHANGED <<now, otherWrites, initialize, initStatus, initError,
                   validations, readyPromise, cachedCollections, maps, made>>
    /\ UNCHANGED fbVars

(***************************************************************************)
(* RealTimeDB.get                                                          *)
(***************************************************************************)
\* objectToCollections(object, db): one Collection per key of the object,
\* whose path is the key; the i-th key's node is the i-th node created.
ChildPath(parent, key) == <<key>>

ObjectToCollectionNodes(object, parent) ==
    LET keys == ObjectKeys(object)
    IN [i \in 1..Len(keys) |->
           NewCollection(ChildPath(parent, keys[i]), object.kids[keys[i]], parent)]

ObjectToCollections(object, first) ==
    LET keys == ObjectKeys(object)
    IN [k \in DOMAIN object.kids |->
           first + (CHOOSE i \in 1..Len(keys) : keys[i] = k)]

\* this.cachedCollections.has(path)
\* (mutant: the table is not consulted)
HasMutantNever(path) == FALSE
Has(path) == cachedCollections[path].tag # "absent"

\* get(path), up to the return of the cached entry or to `await sendRequest`.
DbGetCall(c, path) ==
    /\ CanCall(c)
    /\ LET new == NewCall("dbGet", path, 0)
           e == cachedCollections[path]
       IN IF Has(path)
          THEN Return(c, [new EXCEPT !.hit = TRUE,
                             !.resKind = IF e.tag = "map" THEN "map" ELSE "value",
                             !.result = e.val, !.resMap = e.map])
          ELSE /\ calls' = [calls EXCEPT ![c] =
                      SendRequest(new, path, "Get", JSONstringify(Undefined))]
               /\ UNCHANGED last
    /\ UNCHANGED <<now, remote, otherWrites, initialize, initStatus, initError,
                   validations, readyPromise, cachedCollections, maps, nodes>>
    /\ made' = made + 1
    /\ UNCHANGED fbVars

\* What get(path) stores in cachedCollections for a parsed body: line 146
\* stores the result whether it is a CollectionMap or a scalar.
\* (mutant: only a CollectionMap is stored)
CacheEntryMutantObjectsOnly(body, map) ==
    IF IsObject(body) THEN [tag |-> "map", val |-> Undefined, map |-> map]
    ELSE AbsentEntry
CacheEntry(body, map) ==
    IF IsObject(body) THEN [tag |-> "map", val |-> Undefined, map |-> map]
    ELSE [tag |-> "scalar", val |-> body, map |-> 0]

\* if (response.status !== 200) return;
\* (mutant: the status is not looked at)
FailedMutantNever(status) == FALSE
Failed(status) == status # 200

\* get(path), from the response to the return.
DbGetResponse(c, status, text) ==
    /\ c \in Callers
    /\ calls[c].op = "dbGet"
    /\ calls[c].pc = "request"
    /\ text \in calls[c].seen
    /\ LET path == calls[c].path
           body == JSONparse(text)
       IN IF Failed(status)
          THEN /\ Return(c, [calls[c] EXCEPT !.status = status,
                                  !.resKind = "undefined"])
               /\ UNCHANGED cachedCollections
               /\ UNCHANGED <<maps, nodes>>
          ELSE /\ IF IsObject(body)
                  THEN /\ nodes' = nodes \o ObjectToCollectionNodes(body, path)
                       /\ maps' = Append(maps, ObjectToCollections(body, Len(nodes)))
                  ELSE UNCHANGED <<maps, nodes>>
               /\ cachedCollections' =
                      [cachedCollections EXCEPT ![path] =
                          CacheEntry(body, Len(maps) + 1)]
               /\ Return(c, [calls[c] EXCEPT !.status = status,
                          !.resKind = IF IsObject(body) THEN "map" ELSE "value",
                          !.result = IF IsObject(body) THEN Undefined ELSE body,
                          !.resMap = IF IsObject(body) THEN Len(maps) + 1 ELSE 0])
    /\ UNCHANGED <<now, remote, otherWrites, initialize, initStatus, initError,
                   validations, readyPromise, made>>
    /\ UNCHANGED fbVars

\* Firebase.ts constructor: _ready is false and validate() has sent its
\* request.
FbConstructed ==
    /\ _ready = FALSE
    /\ validate = "awaiting"
    /\ validateStatus = 0
    /\ emitted = 0

Init ==
    /\ now = 0
    /\ remote \in RemoteInits
    /\ otherWrites = 0
    \* constructor: this.initialize() has sent its request
    /\ initialize = "awaiting"
    /\ initStatus = 0
    /\ initError = ""
    /\ validations = 1
    /\ readyPromise = "pending"
    /\ cachedCollections = [p \in Paths |-> AbsentEntry]
    /\ maps = <<>>
    /\ nodes = <<>>
    /\ calls = [c \in Callers |-> Idle]
    /\ last = Idle
    /\ made = 0
    /\ FbConstructed

Next ==
    \/ \E s \in ValidationStatuses : InitializeResponse(s)
    \/ Tick
    \/ \E p \in WritePaths, v \in WriteValues : OtherWrite(p, v)
    \/ \E c \in Callers, p \in Paths : DbGetCall(c, p)
    \/ \E c \in Callers, s \in RequestStatuses :
           \E b \in calls[c].seen : DbGetResponse(c, s, b)
    \/ \E i \in 1..Len(nodes), s \in RequestStatuses :
           \E b \in nodes[i].seen : CollectionReady(i, s, b)
    \/ \E c \in Callers, i \in 1..Len(nodes), u \in BOOLEAN :
           CollectionGetCall(c, i, u)
    \/ \E c \in Callers : CollectionGetCheck(c)
    \/ \E c \in Callers, s \in RequestStatuses :
           \E b \in calls[c].seen : CollectionGetResponse(c, s, b)
    \/ \E c \in Callers, i \in 1..Len(nodes), d \in SetValues :
           CollectionSetCall(c, i, d)
    \/ \E c \in Callers, s \in RequestStatuses : CollectionSetResponse(c, s)

Spec == Init /\ [][Next]_vars

(***************************************************************************)
(* The node operations on their own.  The behaviours start in the state    *)
(* the program is in after validation returned 200 and                     *)
(* RealTimeDB.get("users") returned the map of the children of users;      *)
(* `made` counts the calls made from that state on.                        *)
(***************************************************************************)
InitNode ==
    /\ now = 0
    /\ remote \in RemoteInits
    /\ otherWrites = 0
    /\ initialize = "done"
    /\ initStatus = 200
    /\ initError = ""
    /\ validations = 1
    /\ readyPromise = "resolved"
    /\ nodes = ObjectToCollectionNodes(RemoteAt(remote, <<"users">>), <<"users">>)
    /\ maps = <<ObjectToCollections(RemoteAt(remote, <<"users">>), 0)>>
    /\ cachedCollections =
           [p \in Paths |->
               IF p = <<"users">>
               THEN CacheEntry(RemoteAt(remote, <<"users">>), 1)
               ELSE AbsentEntry]
    /\ calls = [c \in Callers |-> Idle]
    /\ last = Idle
    /\ made = 0
    /\ FbConstructed

NextNode ==
    \/ Tick
    \/ \E p \in WritePaths, v \in WriteValues : OtherWrite(p, v)
    \/ \E i \in 1..Len(nodes), s \in RequestStatuses :
           \E b \in nodes[i].seen : CollectionReady(i, s, b)
    \/ \E c \in Callers, i \in 1..Len(nodes), u \in BOOLEAN :
           CollectionGetCall(c, i, u)
    \/ \E c \in Callers : CollectionGetCheck(c)
    \/ \E c \in Callers, s \in RequestStatuses :
           \E b \in calls[c].seen : CollectionGetResponse(c, s, b)
    \/ \E c \in Callers, i \in 1..Len(nodes), d \in SetValues :
           CollectionSetCall(c, i, d)
    \/ \E c \in Callers, s \in RequestStatuses : CollectionSetResponse(c, s)

SpecNode == InitNode /\ [][NextNode]_vars

(***************************************************************************)
(* The event-based client of Firebase.ts.  Its behaviours start in the     *)
(* same state; the caching client takes no step in them.                   *)
(***************************************************************************)
\* validate(), from the response of its request on.
ValidateResponse(status) ==
    /\ validate = "awaiting"
    /\ validateStatus' = status
    /\ IF status # 200
       THEN /\ validate' = "threw"
            /\ UNCHANGED <<_ready, emitted>>
       ELSE /\ _ready' = TRUE
            /\ emitted' = emitted + 1
            /\ validate' = "done"
    /\ UNCHANGED <<remote, otherWrites, calls, last, made>>
    /\ UNCHANGED collectionVars

\* public get ready() (mutant: the flag is not looked at)
ReadyMutantTrue(flag) == TRUE

Ready(flag) == flag

NotReadyError == "[RealTimeDB] Database isnt Ready"

\* get(path, options), up to the await of the request or to the throw.
FbGetCall(c, path) ==
    /\ CanCall(c)
    /\ LET call == [NewCall("fbGet", path, 0) EXCEPT !.readyAtCall = _ready]
       IN IF ~Ready(_ready)
          THEN Return(c, [call EXCEPT !.resKind = "threw",
                                      !.error = NotReadyError])
          ELSE /\ calls' = [calls EXCEPT ![c] =
                      SendRequest(call, path, "Get", JSONstringify(Undefined))]
               /\ UNCHANGED last
    /\ made' = made + 1
    /\ UNCHANGED <<remote, otherWrites>>
    /\ UNCHANGED fbVars
    /\ UNCHANGED collectionVars

\* get(path, options), from the response to the return.
FbGetResponse(c, status, text) ==
    /\ c \in Callers
    /\ calls[c].op = "fbGet"
    /\ calls[c].pc = "request"
    /\ text \in calls[c].seen
    /\ Return(c, [calls[c] EXCEPT
                     !.status = status,
                     !.resKind = IF status # 200 THEN "undefined" ELSE "value",
                     !.result = IF status # 200 THEN Undefined
                                ELSE JSONparse(text)])
    /\ UNCHANGED <<remote, otherWrites, made>>
    /\ UNCHANGED fbVars
    /\ UNCHANGED collectionVars

\* set: dataString of a number is `${data}`, which is what JSON.stringify
\* gives for it; the data drawn are numbers.
DataString(data) == JSONstringify(data)

\* set(path, data, options), up to the await of the request or to the throw.
FbSetCall(c, path, data) ==
    /\ CanCall(c)
    /\ LET call == [NewCall("fbSet", path, 0) EXCEPT !.readyAtCall = _ready,
                                                     !.data = data]
       IN IF ~Ready(_ready)
          THEN Return(c, [call EXCEPT !.resKind = "threw",
                                      !.error = NotReadyError])
          ELSE /\ calls' = [calls EXCEPT ![c] =
                      SendRequest(call, path, "Put", DataString(data))]
               /\ UNCHANGED last
    /\ made' = made + 1
    /\ UNCHANGED <<remote, otherWrites>>
    /\ UNCHANGED fbVars
    /\ UNCHANGED collectionVars

\* set(path, data, options), from the response to the return: true for 200.
FbSetResponse(c, status) ==
    /\ c \in Callers
    /\ calls[c].op = "fbSet"
    /\ calls[c].pc = "request"
    /\ remote' = RemoteAfterPut(calls[c].reqPath, calls[c].body, status)
    /\ calls' = ObserveCalls([calls EXCEPT ![c] = Idle], remote')
    /\ last' = [calls[c] EXCEPT !.pc = "done", !.status = status,
                    !.resKind = "value",
                    !.result = Scalar(IF status = 200 THEN "true" ELSE "false"),
                    !.remoteAfter = RemoteAt(remote', calls[c].reqPath)]
    /\ UNCHANGED <<otherWrites, made>>
    /\ UNCHANGED fbVars
    /\ UNCHANGED collectionVars

\* Another client's write, while the event-based client is in use.
FbOtherWrite(path, v) ==
    /\ otherWrites < MaxWrites
    /\ otherWrites' = otherWrites + 1
    /\ remote' = RemotePut(remote, path, v)
    /\ calls' = ObserveCalls(calls, remote')
    /\ UNCHANGED <<last, made>>
    /\ UNCHANGED fbVars
    /\ UNCHANGED collectionVars

NextFb ==
    \/ \E s \in ValidationStatuses : ValidateResponse(s)
    \/ \E p \in WritePaths, v \in WriteValues : FbOtherWrite(p, v)
    \/ \E c \in Callers, p \in Paths : FbGetCall(c, p)
    \/ \E c \in Callers, s \in RequestStatuses :
           \E b \in calls[c].seen : FbGetResponse(c, s, b)
    \/ \E c \in Callers, p \in Paths, d \in SetValues : FbSetCall(c, p, d)
    \/ \E c \in Callers, s \in RequestStatuses : FbSetResponse(c, s)

SpecFb == Init /\ [][NextFb]_vars

(***************************************************************************)
(* Properties.                                                             *)
(***************************************************************************)
\* The calls in progress and the call that returned last.
Records == {calls[c] : c \in Callers} \cup {last}

\* Caller c's call returns in this step.
Returns(c) == calls[c].pc # "idle" /\ calls'[c].pc = "idle"

\* A call of RealTimeDB.get(p) is made in this step.
DbGetMade(p) ==
    /\ made' = made + 1
    /\ \/ calls' = calls /\ last'.op = "dbGet" /\ last'.path = p
       \/ \E c \in Callers :
             calls[c].pc = "idle" /\ calls'[c].op = "dbGet" /\ calls'[c].path = p

\* C1: a set whose PUT does not return 200 fails towards its caller and
\* leaves the node's cache as it was before the call.
C1_FailedSetKeepsCache ==
    (last.op = "set" /\ last.status # 200) =>
        (last.resKind = "threw" /\ last.cacheAfter = last.cacheBefore)

\* C2: a set that has completed with status 200 sent its argument as the
\* body of the PUT, so that the remote value at the path and the node's
\* cache both equal the argument when it returns.
C2_SetWritesNewValue ==
    (last.op = "set" /\ last.status = 200) =>
        /\ last.body = JSONstringify(last.data)
        /\ last.remoteAfter = last.data
        /\ last.cacheAfter = last.data

\* C3: RealTimeDB.get sends no GET and does not return before the
\* validation request has returned 200.
C3_GetAwaitsReady ==
    \A r \in Records :
        (r.op = "dbGet" /\ (r.sent > 0 \/ r.pc = "done")) =>
            readyPromise = "resolved"

\* C4: once validation returned a status other than 200, the error that
\* belongs to the status was raised, readiness is never reached, validation
\* is not retried, and no RealTimeDB.get made afterwards returns data.
C4_ValidationFailureTerminal ==
    initialize = "threw" =>
        /\ initStatus = 404 => initError = "Failed To Find Database"
        /\ initStatus = 401 => initError = "Permission Denied To The Database"
        /\ initStatus \notin {200, 401, 404} =>
               initError = "Error Validating Database Info"
        /\ readyPromise # "resolved"
        /\ validations = 1
        /\ ~(last.op = "dbGet" /\ last.afterFailure
                /\ last.resKind \in {"value", "map"})

\* C5: a get() without forced refresh sends exactly one GET before it
\* returns when now > expiresAt held at its check, and none when
\* now <= expiresAt held.
C5_RefreshIffExpired ==
    /\ \A r \in Records :
          (r.op = "get" /\ ~r.updateCache /\ r.stale = "fresh") => r.sent = 0
    /\ \A r \in Records :
          (r.op = "get" /\ ~r.updateCache /\ r.stale = "expired") => r.sent = 1
    /\ last.op = "get" => last.stale # "unchecked"

\* C5, its case: an unforced get() on an expired node returned after one GET,
\* on a node that an earlier response had seeded.
C5_Witness ==
    /\ last.op = "get" /\ ~last.updateCache
    /\ last.stale = "expired" /\ last.sent = 1 /\ last.status = 200

\* C6: RealTimeDB.get of a path that has an entry returns that entry at
\* once, sends nothing, and leaves the cache table, the nodes and the remote
\* store as they were.
C6_CacheHitFrame ==
    [][\A p \in Paths :
          (cachedCollections[p].tag # "absent" /\ DbGetMade(p)) =>
              /\ calls' = calls
              /\ last'.pc = "done" /\ last'.sent = 0
              /\ last'.resKind =
                     (IF cachedCollections[p].tag = "map" THEN "map" ELSE "value")
              /\ last'.result = cachedCollections[p].val
              /\ last'.resMap = cachedCollections[p].map
              /\ UNCHANGED <<cachedCollections, maps, nodes, remote>>]_vars

\* C6, its case: a get has returned a cached CollectionMap.
C6_Witness ==
    /\ last.op = "dbGet" /\ last.hit /\ last.resKind = "map"
    /\ last.resMap = cachedCollections[last.path].map

\* C7: RealTimeDB.get of an uncached path whose GET returns a status other
\* than 200 returns undefined and leaves the cache table as it was, and a get
\* of a path without an entry sends a GET for it.
C7_FailedGetNotCached ==
    [][/\ \A c \in Callers :
             (Returns(c) /\ calls[c].op = "dbGet" /\ last'.status # 200) =>
                 /\ last'.resKind = "undefined"
                 /\ cachedCollections' = cachedCollections
       /\ \A p \in Paths :
             (cachedCollections[p].tag = "absent" /\ DbGetMade(p)) =>
                 \E c \in Callers :
                     /\ calls[c].pc = "idle"
                     /\ calls'[c].sent = 1
                     /\ calls'[c].method = "Get"
                     /\ calls'[c].reqPath = p]_vars

\* C7, its case: a get returned undefined after a 404, its path has no
\* entry, and a get of the same path has sent a GET.
C7_Witness ==
    /\ last.op = "dbGet" /\ last.status = 404 /\ last.resKind = "undefined"
    /\ cachedCollections[last.path].tag = "absent"
    /\ \E c \in Callers :
          /\ calls[c].op = "dbGet" /\ calls[c].path = last.path
          /\ calls[c].sent = 1

\* C8, as claimed: a get that returns a scalar has sent a GET and its path
\* has no entry in the cache table.
C8_ScalarNotCached ==
    (last.op = "dbGet" /\ last.resKind = "value") =>
        (last.sent = 1 /\ cachedCollections[last.path].tag = "absent")

\* C8, amended: a get that returns a scalar leaves that scalar under its
\* path in the cache table, and it sent a GET exactly when the path had no
\* entry: a get on a path holding a scalar returns it without a request.
C8_ScalarCached ==
    (last.op = "dbGet" /\ last.resKind = "value") =>
        /\ cachedCollections[last.path] =
               [tag |-> "scalar", val |-> last.result, map |-> 0]
        /\ last.hit <=> last.sent = 0
        /\ ~last.hit <=> (last.sent = 1 /\ last.status = 200)

\* C8, its case: a repeated get on a scalar path was served from the table.
C8_Witness ==
    /\ last.op = "dbGet" /\ last.resKind = "value"
    /\ last.hit /\ last.sent = 0 /\ made = 2

\* C9: every node created when an object body is materialized has its
\* sub-value installed, expiresAt = now + ttl, is ready, and no GET was sent
\* for it; and the map has exactly one node per key of the object.
C9_ChildrenSeeded ==
    [][/\ \A i \in (Len(nodes) + 1)..Len(nodes') :
             /\ nodes'[i].cache = nodes'[i].seed
             /\ nodes'[i].expiresAt = now + ttl
             /\ nodes'[i].ready = "resolved"
             /\ nodes'[i].initGets = 0
       /\ \A m \in (Len(maps) + 1)..Len(maps') :
             /\ DOMAIN maps'[m] =
                    DOMAIN RemoteAt(remote, last'.path).kids
             /\ \A j, k \in DOMAIN maps'[m] :
                    maps'[m][j] = maps'[m][k] => j = k
             /\ \A k \in DOMAIN maps'[m] :
                    /\ maps'[m][k] \in (Len(nodes) + 1)..Len(nodes')
                    /\ nodes'[maps'[m][k]].seed =
                           RemoteAt(remote, last'.path).kids[k]]_vars

\* C10: whenever a node's get() has returned, the node was ready and the
\* value returned is one that was supplied or fetched, never undefined.
C10_GetReturnsObtainedValue ==
    last.op = "get" =>
        (nodes[last.node].ready = "resolved" /\ last.result # Undefined)

\* C11: the value passed to set is in the node's cache, and is returned by
\* a get of the node, only once a set of the node has received the response
\* of its PUT.
C11_SetVisibleAfterPut ==
    /\ \A i \in 1..Len(nodes) :
           nodes[i].cache \in SetValues => nodes[i].written
    /\ \A r \in Records :
           (r.op = "get" /\ r.pc = "done" /\ r.result \in SetValues) =>
               nodes[r.node].written

\* A get of the node that sent a refresh request returns the value that a
\* set whose PUT was answered installed.
C11_Witness ==
    /\ last.op = "get"
    /\ last.result \in SetValues
    /\ last.sent = 1
    /\ nodes[last.node].written

\* A value that is a map from child keys to Collection nodes, as
\* objectToCollections builds it; a JSON object is not one.
IsCollectionMap(v) == v.tag = "map"

\* C12: a node that no set has written to holds a map from child keys to
\* Collection nodes if and only if the JSON value it was last seeded with or
\* refreshed from is a non-null object, and holds that JSON value itself
\* otherwise.
C12_ObjectValueIsSubtreeMap ==
    \A i \in 1..Len(nodes) :
        (nodes[i].loaded # Undefined /\ ~nodes[i].written) =>
            /\ IsObject(nodes[i].loaded) <=> IsCollectionMap(nodes[i].cache)
            /\ ~IsObject(nodes[i].loaded) => nodes[i].cache = nodes[i].loaded

\* C13: the controller's ready promise and a node's ready promise, once
\* resolved, stay resolved in every later step, whatever the node's age and
\* the status of its refreshes; and a get that waits on a resolved node's
\* promise can always go on.
C13_BarriersOneShot ==
    /\ [][/\ readyPromise = "resolved" => readyPromise' = "resolved"
          /\ \A i \in 1..Len(nodes) :
                 nodes[i].ready = "resolved" => nodes'[i].ready = "resolved"]_vars
    /\ [](\A c \in Callers :
             (calls[c].op = "get" /\ calls[c].pc = "ready"
                 /\ nodes[calls[c].node].ready = "resolved") =>
                     ENABLED CollectionGetCheck(c))

\* A get of a node whose cache had expired went past the node's promise,
\* its refresh failed, and the promises are still resolved.
C13_Witness ==
    /\ last.op = "get"
    /\ last.stale = "expired"
    /\ last.status = 404
    /\ nodes[last.node].ready = "resolved"
    /\ readyPromise = "resolved"

\* The call that returned last is the second of two get(true) made in a
\* row on a node no set has written to, and the remote value at the node's
\* path was the same whenever either request was in flight.
TwiceInARow ==
    /\ last.op = "get"
    /\ last.prev.follows
    /\ ~nodes[last.node].written
    /\ Cardinality(last.prev.seen \cup last.seen) = 1

\* C14 as claimed: the two calls return the same value, whatever the
\* statuses of the two refresh responses.
C14_ForcedGetTwiceAnyStatus ==
    TwiceInARow => last.result = last.prev.result

\* C14: the two calls return the same value when the first call's refresh
\* was answered with 200.
C14_ForcedGetTwice ==
    (TwiceInARow /\ last.prev.status = 200) =>
        last.result = last.prev.result

\* The first refresh was answered with 200 and replaced the seeded value,
\* the second was not answered with 200.
C14_Witness ==
    /\ TwiceInARow
    /\ last.prev.status = 200
    /\ last.status = 404
    /\ last.result # nodes[last.node].seed

\* C15: an entry of cachedCollections, once stored, is not replaced by any
\* later step.
C15_EntriesNeverReplaced ==
    [][\A p \in Paths :
          cachedCollections[p] # AbsentEntry =>
              cachedCollections'[p] = cachedCollections[p]]_vars

\* C16: the node built for key k of the object fetched at path p has the
\* path p/k, and every GET and PUT that a get or a set of the node sends is
\* for p/k.
C16_ChildUsesFullPath ==
    \A m \in 1..Len(maps) :
        \A k \in DOMAIN maps[m] :
            LET i == maps[m][k]
            IN /\ nodes[i].path = nodes[i].parent \o <<k>>
               /\ \A r \in Records :
                      (r.op \in {"get", "set"} /\ r.node = i /\ r.sent > 0) =>
                          r.reqPath = nodes[i].parent \o <<k>>

\* The call that returned last is the second to return of two gets that
\* both found the node expired and whose refreshes were in flight together,
\* on a node no set has written to.
BothRefreshed ==
    /\ last.op = "get"
    /\ last.stale = "expired"
    /\ last.peer.done
    /\ ~nodes[last.node].written

\* C17 as claimed: when the second refresh has completed, the node's value
\* is the remote value at the node's path.
C17_RefreshesConvergeAlways ==
    BothRefreshed => last.result = last.remoteAfter

\* C17: when both refreshes were answered with 200 and the remote value at
\* the node's path was the same whenever either request was in flight, the
\* node's value is the remote value once the second refresh has completed.
C17_RefreshesConverge ==
    (/\ BothRefreshed
     /\ last.status = 200
     /\ last.peer.status = 200
     /\ Cardinality(last.seen \cup last.peer.seen) = 1) =>
        last.result = last.remoteAfter

\* Both refreshes were answered with 200 and replaced the seeded value.
C17_Witness ==
    /\ BothRefreshed
    /\ last.status = 200
    /\ last.peer.status = 200
    /\ Cardinality(last.seen \cup last.peer.seen) = 1
    /\ last.result # nodes[last.node].seed
    /\ last.result = last.remoteAfter

\* The bodies the refresh of node i that is answered in this step may carry.
AnsweredBodies(i) ==
    IF nodes[i].ready = "pending" /\ nodes'[i].ready = "resolved"
    THEN nodes[i].seen
    ELSE UNION {calls[c].seen : c \in {d \in Callers :
                    /\ Returns(d)
                    /\ calls[d].op = "get" /\ calls[d].node = i
                    /\ calls[d].pc = "request"
                    /\ last'.status = 200}}

\* C18: a node's expiresAt changes only in the step in which a refresh of
\* the node is answered with 200, and then the cache is the parsed body of
\* the response and expiresAt is now + ttl; a get that found its node
\* expired and whose refresh was answered with 200 sent one GET and returns
\* a value the remote store held while the request was in flight.
C18_RefreshInstallsThenRenews ==
    /\ [][\A i \in 1..Len(nodes) :
             nodes'[i].expiresAt # nodes[i].expiresAt =>
                 /\ \E b \in AnsweredBodies(i) : nodes'[i].cache = JSONparse(b)
                 /\ nodes'[i].expiresAt = now + ttl]_vars
    /\ [](\A r \in Records :
             (r.op = "get" /\ r.pc = "request") =>
                 r.sent = 1)
    /\ []((last.op = "get" /\ last.stale = "expired" /\ last.status = 200) =>
             /\ last.sent = 1
             /\ last.result \in {JSONparse(b) : b \in last.seen}
             /\ nodes[last.node].expiresAt # ExpUndefined)

\* A get of the node seeded with 1, expired, whose path holds 2 in the
\* remote store, returns 2 after one GET.
C18_Witness ==
    /\ last.op = "get"
    /\ last.stale = "expired"
    /\ last.status = 200
    /\ last.sent = 1
    /\ nodes[last.node].seed = Scalar("1")
    /\ last.result = Scalar("2")
    /\ nodes[last.node].expiresAt = now + ttl

\* C19: in the step in which a get's refresh is answered with a status
\* other than 200, the node's cache and expiresAt stay as they are and the
\* get returns the cached value, not an error.
C19_FailedRefreshIsNoOp ==
    [][\A c \in Callers :
          (/\ Returns(c)
           /\ calls[c].op = "get" /\ calls[c].pc = "request"
           /\ last'.status # 200) =>
              LET i == calls[c].node
              IN /\ nodes'[i].cache = nodes[i].cache
                 /\ nodes'[i].expiresAt = nodes[i].expiresAt
                 /\ last'.resKind = "value"
                 /\ last'.result = nodes[i].cache]_vars

\* A get of an expired node whose refresh was answered with 404 returned
\* the seeded value although the remote store holds another one.
C19_Witness ==
    /\ last.op = "get"
    /\ last.stale = "expired"
    /\ last.status = 404
    /\ last.result = nodes[last.node].seed
    /\ last.result # last.remoteAfter
    /\ Greater(now, nodes[last.node].expiresAt)

\* C20: _ready is false until validate()'s request has returned 200 and is
\* true from then on; emit is called only with _ready true; a get or set
\* called while _ready is false throws the not-ready error and sends no
\* request, and no request of a get or set is sent while _ready is false.
C20_ReadyFlagGuardsCalls ==
    /\ [][/\ _ready => _ready'
          /\ emitted' # emitted => _ready']_vars
    /\ [](/\ _ready <=> (validate = "done" /\ validateStatus = 200)
          /\ emitted > 0 => _ready
          /\ \A r \in Records :
                 r.op \in {"fbGet", "fbSet"} =>
                     /\ ~r.readyAtCall =>
                            /\ r.pc = "done"
                            /\ r.resKind = "threw"
                            /\ r.error = NotReadyError
                            /\ r.sent = 0
                     /\ r.sent > 0 => r.readyAtCall)

\* A call made before the validation returned threw, the validation then
\* returned 200 and the Ready event was emitted.
C20_Witness ==
    /\ last.op \in {"fbGet", "fbSet"}
    /\ ~last.readyAtCall
    /\ last.resKind = "threw"
    /\ last.sent = 0
    /\ _ready
    /\ emitted = 1
====
